---- MODULE Spec2Model ----
(***************************************************************************)
(* Model of the Mechabellum build assistant (src/mechabellum_builder.py).  *)
(*                                                                         *)
(* The state is what one Streamlit session holds: the four reference       *)
(* tables read from disk at the top of run_app (data, tiers, units_meta,   *)
(* chaf_units), the widget values (round_num, my_units, enemy_units,       *)
(* struggle_units) and what the last run of the script produced.  Every    *)
(* widget change reruns the whole script, so every action sets a widget    *)
(* value and recomputes the outputs of run_app from the new values.        *)
(*                                                                         *)
(* Scores are Python floats in the source.  Here they are exact rationals, *)
(* stored as integers scaled by Scale, so that 0.3, 0.7 and the cost       *)
(* quotients are exact.  An exception raised by the source is a value      *)
(* [exc |-> <name>]; a returned number n is [exc |-> "none", val |-> n].   *)
(***************************************************************************)
EXTENDS Integers, Sequences, FiniteSets, TLC

\* ------------------------------------------------------------------ bounds

\* Largest round handed to the cost term when it is evaluated on its own
\* (the round selector of the app itself stops at MaxRound).
MaxRoundArg == 20

\* Most links under one heading of a scraped unit page.
MaxLinks == 2

\* Common denominator of every term: 10 (for 0.3 and 0.7) and the cost
\* divisors 400, 450 and 600 - 50*(round-6) for the rounds up to 30.
Scale == 1000 * 1386

\* ------------------------------------------------------- program constants

\* st.number_input("Current round", 1, 10, 1, step=1)
MinRound == 1
MaxRound == 10

\* TIER_RANK = {"S": 4, "A": 3, "B": 2, "C": 1, "D": 0}
TIER_RANK == [S |-> 4, A |-> 3, B |-> 2, C |-> 1, D |-> 0]

\* Unit names, in the order Python's sorted() gives them.
Names == <<"Arclight", "Crawler", "Fang", "Mustang">>

NameSet == {Names[i] : i \in DOMAIN Names}

NameIndex(n) == CHOOSE i \in DOMAIN Names : Names[i] = n

\* Stands for Python's None where a unit name is expected.
NoUnit == "None"

\* ------------------------------------------------------- reference tables

Rel(cb, ua) == [countered_by |-> cb, used_against |-> ua]

Meta(t, g, c, uc) == [titan |-> t, giant |-> g, cost |-> c, unlock_cost |-> uc]

\* units.json as scrape_all_units writes it: unit -> the two name lists.
\* A list may name a unit that has no page of its own ("Mustang") and, as
\* extract_unit_names keeps every /unit/ link it finds, the unit itself.

\* relations recorded on both sides, on one side only, and to "Mustang"
DataMixed ==
  ( "Arclight" :> Rel(<<"Fang">>, <<"Crawler", "Mustang">>)
 @@ "Crawler"  :> Rel(<<"Arclight", "Fang">>, <<>>)
 @@ "Fang"     :> Rel(<<"Mustang">>, <<"Arclight", "Crawler">>) )

\* every name is in the used_against list of some unit
DataAllUsed ==
  ( "Arclight" :> Rel(<<"Crawler">>, <<"Crawler", "Fang">>)
 @@ "Crawler"  :> Rel(<<"Arclight">>, <<"Arclight", "Mustang">>)
 @@ "Fang"     :> Rel(<<"Arclight", "Crawler">>, <<>>) )

\* two units with the same relations
DataSym ==
  ( "Arclight" :> Rel(<<"Fang">>, <<"Fang">>)
 @@ "Crawler"  :> Rel(<<"Fang">>, <<"Fang">>)
 @@ "Fang"     :> Rel(<<>>, <<"Arclight", "Crawler", "Mustang">>) )

\* a knowledge base of one unit
DataSingle == ( "Crawler" :> Rel(<<>>, <<"Crawler">>) )

\* units2.json as scp_wki.main writes it, keyed by name (units_meta).

\* no unit has metadata
MetaNone == [u \in {} |-> Meta(FALSE, FALSE, 300, 0)]

\* one giant, one titan, the other names without an entry
MetaPartial ==
  ( "Arclight" :> Meta(FALSE, TRUE, 200, 50)
 @@ "Fang"     :> Meta(TRUE, FALSE, 400, 200) )

\* two titans, every name with an entry
MetaTitans ==
  ( "Arclight" :> Meta(TRUE, FALSE, 300, 0)
 @@ "Crawler"  :> Meta(FALSE, FALSE, 100, 0)
 @@ "Fang"     :> Meta(TRUE, FALSE, 300, 0)
 @@ "Mustang"  :> Meta(FALSE, FALSE, 100, 0) )

\* three giants, one of them a titan
MetaGiants ==
  ( "Arclight" :> Meta(FALSE, TRUE, 200, 0)
 @@ "Crawler"  :> Meta(FALSE, TRUE, 200, 0)
 @@ "Fang"     :> Meta(TRUE, TRUE, 800, 200) )

\* tiers.json, or {} when the file is absent (load_tiers)
TiersNone == [u \in {} |-> "S"]

TiersSome == ( "Arclight" :> "A" @@ "Fang" :> "S" @@ "Mustang" :> "D" )

KB(d, t, m, c) == [data |-> d, tiers |-> t, units_meta |-> m, chaf_units |-> c]

\* The contents of the four files a session may start from.
KnowledgeBases ==
  { KB(DataMixed,   TiersSome, MetaPartial, <<"Crawler">>),
    KB(DataMixed,   TiersNone, MetaNone,    <<"Mustang", "Crawler">>),
    KB(DataSym,     TiersNone, MetaGiants,  <<"Mustang">>),
    KB(DataAllUsed, TiersSome, MetaTitans,  <<"Crawler">>),
    KB(DataAllUsed, TiersNone, MetaGiants,  <<"Mustang", "Crawler">>),
    KB(DataAllUsed, TiersNone, MetaTitans,  <<>>),
    KB(DataAllUsed, TiersSome, MetaPartial, <<"Crawler">>),
    KB(DataAllUsed, TiersNone, MetaNone,    <<"Crawler">>),
    KB(DataSingle,  TiersNone, MetaTitans,  <<"Crawler">>) }

VARIABLES
  data,            \* units.json: unit -> [countered_by, used_against]
  tiers,           \* tiers.json: unit -> tier letter
  units_meta,      \* units2.json: unit -> [titan, giant, cost, unlock_cost]
  chaf_units,      \* chaf.json: list of chaff unit names
  round_num,       \* "Current round" selector
  my_units,        \* "My build" multiselect, in selection order
  enemy_units,     \* "Enemy units" multiselect
  struggle_units,  \* "Struggle units" multiselect, options = enemy_units
  counters_panel,  \* "Suggested counters" panel: shown or not, and its rows
  vuln_panel,      \* "Vulnerabilities in my build" panel, likewise
  status,          \* how the last run of the script ended
  best_chaf,       \* the round-1 chaff tip, or NoUnit
  ranked,          \* the ranking, or << >>
  best,            \* primary suggestion, or NoUnit
  second,          \* secondary suggestion, or NoUnit
  more_chaff,      \* the closing "add more chaff" tip, or NoUnit
  call             \* last direct evaluation of one score term

vars == <<data, tiers, units_meta, chaf_units, round_num, my_units,
          enemy_units, struggle_units, counters_panel, vuln_panel, status,
          best_chaf, ranked, best, second, more_chaff, call>>

\* ----------------------------------------------------------------- helpers

InList(x, s) == \E i \in DOMAIN s : s[i] = x

ToSet(s) == {s[i] : i \in DOMAIN s}

Ok(v) == [exc |-> "none", val |-> v]

Raise(e) == [exc |-> e, val |-> 0]

\* data.get(u, {}).get("countered_by", [])
CounteredBy(u) == IF u \in DOMAIN data THEN data[u].countered_by ELSE <<>>

\* data.get(u, {}).get("used_against", [])
UsedAgainst(u) == IF u \in DOMAIN data THEN data[u].used_against ELSE <<>>

\* all_units = sorted(data.keys())
all_units == SelectSeq(Names, LAMBDA n : n \in DOMAIN data)

\* enemy_has_counter(u)
enemy_has_counter(u) ==
  \E en \in enemy_units :
    InList(en, CounteredBy(u)) \/ InList(u, UsedAgainst(en))

\* ------------------------------------------- counters and vulnerabilities

\* tier_val(name, tiers) = TIER_RANK.get(tiers.get(name, ""), -1)
tier_val(n) ==
  IF n \in DOMAIN tiers /\ tiers[n] \in DOMAIN TIER_RANK THEN TIER_RANK[tiers[n]] ELSE -1

\* The Counter both helpers fill: tally[c] += 1 for every occurrence of c in
\* the countered_by list of a unit of the roster.
Tally(roster, c) ==
  Cardinality({p \in roster \X (1..Len(Names)) :
                 /\ p[2] \in DOMAIN CounteredBy(p[1])
                 /\ CounteredBy(p[1])[p[2]] = c})

\* tally.items() once the units of the roster are popped: (name, count)
TallyItems(roster) ==
  {it \in {<<c, Tally(roster, c)>> : c \in NameSet \ roster} : it[2] > 0}

\* The sort key (-count, -tier_val, name) puts item a before item b.
TallyBefore(a, b) ==
  \/ a[2] > b[2]
  \/ /\ a[2] = b[2]
     /\ \/ tier_val(a[1]) > tier_val(b[1])
        \/ tier_val(a[1]) = tier_val(b[1]) /\ NameIndex(a[1]) < NameIndex(b[1])

\* sorted(tally.items(), key=...): the (name, count) pairs in key order
SortedTally(roster) ==
  LET items == TallyItems(roster)
  IN [p \in 1..Cardinality(items) |->
        CHOOSE it \in items :
          Cardinality({b \in items : TallyBefore(b, it)}) = p - 1]

\* rank_counters(enemy, data, tiers)
rank_counters(enemy) == SortedTally(enemy)

\* find_vuln(mine, data, tiers)
find_vuln(mine) == SortedTally(ToSet(mine))

Panel(sh, rows) == [shown |-> sh, rows |-> rows]

\* "Suggested counters": inside `if enemy_units`
CountersPanel ==
  IF enemy_units # {} THEN Panel(TRUE, rank_counters(enemy_units))
  ELSE Panel(FALSE, <<>>)

\* "Vulnerabilities in my build": inside `if my_units`
VulnPanel ==
  IF my_units # <<>> THEN Panel(TRUE, find_vuln(my_units))
  ELSE Panel(FALSE, <<>>)

\* ------------------------------------------------------ score_unit, by term

\* meta = units_meta.get(u, {}) and the four meta.get(..., default).  The
\* tables of the model give every entry a cost and an unlock cost (an entry
\* that scp_wki wrote with a null cost is not among them).
MetaOf(u) ==
  IF u \in DOMAIN units_meta THEN units_meta[u] ELSE Meta(FALSE, FALSE, 300, 0)

is_titan(u) == MetaOf(u).titan

is_giant(u) == MetaOf(u).giant

\* chaf_score with the 8 kept when the enemy answers the unit (the 13 in
\* an else branch).
chaf_score_keep8(u) ==
  IF InList(u, chaf_units) /\ round_num # 1 THEN -3
  ELSE IF InList(u, chaf_units) /\ round_num = 1
       THEN (IF enemy_has_counter(u) THEN 8 ELSE 13)
  ELSE 0

\* chaf_score: 13 for a chaff unit in round 1 (the 8 set first when the
\* enemy answers the unit is overwritten on the next line), -3 for a chaff
\* unit in any other round, else 0.
chaf_score(u) ==
  LET c0 == 0
      c1 == IF InList(u, chaf_units) /\ round_num = 1
            THEN LET c8 == IF enemy_has_counter(u) THEN 8 ELSE c0
                 IN 13
            ELSE c0
  IN IF InList(u, chaf_units) /\ round_num # 1 THEN -3 ELSE c1

\* arc_score
arc_score(u) ==
  IF ~InList("Arclight", my_units) /\ round_num = 1 /\ u = "Arclight"
  THEN IF \E i \in DOMAIN chaf_units : chaf_units[i] \in enemy_units
       THEN 15 ELSE 9
  ELSE 0

\* already read from the used_against lists of my build instead of the
\* countered_by lists of the enemy units.
already_used_against ==
  {e \in enemy_units : \E i \in DOMAIN my_units : InList(e, UsedAgainst(my_units[i]))}

\* already: the enemy units some unit of my build counters
already ==
  {e \in enemy_units : \E i \in DOMAIN my_units : InList(my_units[i], CounteredBy(e))}

\* new_cov (score_unit and explain compute it alike)
new_cov(u) == {e \in enemy_units : InList(u, CounteredBy(e)) /\ e \notin already}

\* overlap (ov_cov in explain)
overlap(u) == {e \in enemy_units : InList(u, CounteredBy(e)) /\ e \in already}

\* coverage_score = len(new_cov) * 2 - len(overlap) * 0.3, times Scale
coverage_score(u) ==
  Cardinality(new_cov(u)) * 2 * Scale - Cardinality(overlap(u)) * 3 * (Scale \div 10)

\* t_val = TIER_RANK.get(tiers.get(u, ""), 0)
t_val(u) ==
  IF u \in DOMAIN tiers /\ tiers[u] \in DOMAIN TIER_RANK THEN TIER_RANK[tiers[u]] ELSE 0

in_build(u) == IF InList(u, my_units) THEN 1 ELSE 0

\* any(units_meta[m].get("titan") for m in my_units): the subscript raises
\* KeyError at the first unit of my_units without metadata, unless a titan
\* came before it.
RECURSIVE AnyTitan(_)
AnyTitan(ms) ==
  IF ms = <<>> THEN Ok(0)
  ELSE IF Head(ms) \notin DOMAIN units_meta THEN Raise("KeyError")
  ELSE IF units_meta[Head(ms)].titan THEN Ok(1)
  ELSE AnyTitan(Tail(ms))

\* titan_pen = -999 if is_titan and any(...) else 0
titan_pen(u) ==
  IF is_titan(u)
  THEN LET a == AnyTitan(my_units)
       IN IF a.exc # "none" THEN a ELSE IF a.val = 1 THEN Ok(-999) ELSE Ok(0)
  ELSE Ok(0)

\* giants_in = sum(units_meta[m].get("giant", False) for m in my_units)
RECURSIVE SumGiants(_)
SumGiants(ms) ==
  IF ms = <<>> THEN Ok(0)
  ELSE IF Head(ms) \notin DOMAIN units_meta THEN Raise("KeyError")
  ELSE LET r == SumGiants(Tail(ms))
       IN IF r.exc # "none" THEN r
          ELSE Ok(r.val + (IF units_meta[Head(ms)].giant THEN 1 ELSE 0))

giants_in == SumGiants(my_units)

\* giant_pen
giant_pen(u) ==
  LET g == giants_in
  IN IF g.exc # "none" THEN g
     ELSE IF ~is_giant(u) THEN Ok(0)
     ELSE IF g.val = 1 THEN Ok(-2)
     ELSE IF g.val = 2 THEN Ok(-5)
     ELSE IF g.val >= 3 THEN Ok(-10)
     ELSE Ok(0)

\* early_pen
early_pen(u) ==
  IF round_num <= 3
    THEN (IF is_titan(u) THEN -10 ELSE 0) + (IF is_giant(u) THEN -6 ELSE 0)
  ELSE IF round_num < 6 THEN (IF is_titan(u) THEN -10 ELSE 0)
  ELSE IF round_num = 6 THEN (IF is_titan(u) THEN -7 ELSE 0)
  ELSE IF round_num < 10 THEN -(10 - round_num) ELSE 0

\* cost_pen with the early-round branch one round too long.
cost_pen_late_flip(u, r) ==
  LET cu == MetaOf(u).cost + MetaOf(u).unlock_cost
      q(n, d) == IF d = 0 THEN [exc |-> "ZeroDivisionError", num |-> n, den |-> d]
                 ELSE [exc |-> "none", num |-> n, den |-> d]
  IN IF r <= 4 THEN q(-cu, 400)
     ELSE IF r <= 6 THEN q(cu, 450)
     ELSE q(cu, 600 - 50 * (r - 6))

\* cost_pen in round r, as the quotient num/den; Python raises
\* ZeroDivisionError when the divisor is 0.
cost_pen(u, r) ==
  LET cu == MetaOf(u).cost + MetaOf(u).unlock_cost
      q(n, d) == IF d = 0 THEN [exc |-> "ZeroDivisionError", num |-> n, den |-> d]
                 ELSE [exc |-> "none", num |-> n, den |-> d]
  IN IF r <= 3 THEN q(-cu, 400)
     ELSE IF r <= 6 THEN q(cu, 450)
     ELSE q(cu, 600 - 50 * (r - 6))

\* enemy_interactions without its second relation (the used_against lists
\* of the enemy units).
enemy_interactions_countered_by(u) ==
  {en \in enemy_units : InList(en, CounteredBy(u))}

\* enemy_interactions
enemy_interactions(u) ==
  {en \in enemy_units : InList(en, CounteredBy(u)) \/ InList(u, UsedAgainst(en))}

\* interaction_count with the two relations counted one after the other.
interaction_count_twice(u) ==
  Cardinality({en \in enemy_units : InList(en, CounteredBy(u))})
  + Cardinality({en \in enemy_units : InList(u, UsedAgainst(en))})

interaction_count(u) == Cardinality(enemy_interactions(u))

\* vuln_pen = -8 * interaction_count
vuln_pen(u) == -8 * interaction_count(u)

\* struggle_priority: a local of score_unit, assigned 10 inside the if and
\* nowhere else; reading it unassigned raises UnboundLocalError.
struggle_priority(u) ==
  IF \E s \in struggle_units : InList(u, UsedAgainst(s))
  THEN Ok(10)
  ELSE Raise("UnboundLocalError")

\* score_unit(u): the statements in source order; the first exception ends
\* the call.
score_unit(u) ==
  LET tp == titan_pen(u)
      gp == giant_pen(u)
      cp == cost_pen(u, round_num)
      sp == struggle_priority(u)
  IN IF tp.exc # "none" THEN Raise(tp.exc)
     ELSE IF gp.exc # "none" THEN Raise(gp.exc)
     ELSE IF cp.exc # "none" THEN Raise(cp.exc)
     ELSE IF sp.exc # "none" THEN Raise(sp.exc)
     ELSE Ok( coverage_score(u)
            + t_val(u) * 7 * (Scale \div 10)
            + in_build(u) * Scale
            + tp.val * Scale
            + gp.val * Scale
            + early_pen(u) * Scale
            + cp.num * (Scale \div cp.den)
            + vuln_pen(u) * Scale
            + chaf_score(u) * Scale
            + arc_score(u) * Scale
            + sp.val * Scale )

\* ------------------------------------------------------------ run_app

\* The key score_unit gives each unit, computed once per use of the ranking.
Keys == [u \in NameSet |-> score_unit(u)]

\* The exception of the first key of seq that raises, or "none".
FirstExc(seq, k) ==
  LET bad == {i \in DOMAIN seq : k[seq[i]].exc # "none"}
  IN IF bad = {} THEN "none"
     ELSE k[seq[CHOOSE i \in bad : \A j \in bad : i <= j]].exc

\* max(seq, key=score_unit): ValueError on an empty list, the exception of
\* the first key that raises, else the first unit with the largest key.
MaxByScore(seq, k) ==
  IF seq = <<>> THEN [exc |-> "ValueError", unit |-> NoUnit]
  ELSE IF FirstExc(seq, k) # "none" THEN [exc |-> FirstExc(seq, k), unit |-> NoUnit]
  ELSE LET i == CHOOSE i \in DOMAIN seq :
                  /\ \A j \in DOMAIN seq : k[seq[j]].val <= k[seq[i]].val
                  /\ \A j \in 1..(i - 1) : k[seq[j]].val < k[seq[i]].val
       IN [exc |-> "none", unit |-> seq[i]]

\* SortPos of an ascending sort read backwards (sorted(...)[::-1]): units
\* with equal keys come out in the reverse of their order in seq.
SortPosReversed(seq, k, i) ==
  1 + Cardinality({j \in DOMAIN seq : k[seq[j]].val > k[seq[i]].val})
    + Cardinality({j \in (i + 1)..Len(seq) : k[seq[j]].val = k[seq[i]].val})

\* Where seq[i] lands in sorted(seq, key=..., reverse=True): after every
\* element with a larger key and, the sort being stable also when reversed,
\* after the elements with an equal key that precede it in seq.
SortPos(seq, k, i) ==
  1 + Cardinality({j \in DOMAIN seq : k[seq[j]].val > k[seq[i]].val})
    + Cardinality({j \in 1..(i - 1) : k[seq[j]].val = k[seq[i]].val})

\* sorted(seq, key=score_unit, reverse=True)
SortedDesc(seq, k) ==
  [p \in DOMAIN seq |-> seq[CHOOSE i \in DOMAIN seq : SortPos(seq, k, i) = p]]

NoRun(st) ==
  [status |-> st, best_chaf |-> NoUnit, ranked |-> <<>>, best |-> NoUnit,
   second |-> NoUnit, more_chaff |-> NoUnit]

\* The round-1 chaff tip: best_chaf = max(chaf_units, key=score_unit)
ChaffTip(k) ==
  IF round_num = 1 THEN MaxByScore(chaf_units, k)
  ELSE [exc |-> "none", unit |-> NoUnit]

\* The "Next focus suggestion" section of run_app once both rosters are
\* non-empty: k the keys score_unit gives, tip the round-1 chaff tip, rk the
\* ranking, mc the closing chaff tip.  The first exception ends the run.
Suggest(k, tip, rk, mc) ==
  IF tip.exc # "none" THEN NoRun(tip.exc)
  ELSE IF FirstExc(all_units, k) # "none"
    THEN [NoRun(FirstExc(all_units, k)) EXCEPT !.best_chaf = tip.unit]
  ELSE IF Len(rk) < 2
    THEN [NoRun("IndexError") EXCEPT !.best_chaf = tip.unit, !.ranked = rk]
  ELSE IF mc.exc # "none"
    THEN [status |-> mc.exc, best_chaf |-> tip.unit, ranked |-> rk,
          best |-> rk[1], second |-> rk[2], more_chaff |-> NoUnit]
  ELSE [status |-> "ok", best_chaf |-> tip.unit, ranked |-> rk,
        best |-> rk[1], second |-> rk[2], more_chaff |-> mc.unit]

\* RunApp with the suggestion section entered as the panels above it are,
\* on `if enemy_units or my_units`.
RunApp_either_roster(k) ==
  IF my_units = <<>> /\ enemy_units = {} THEN NoRun("skipped")
  ELSE Suggest(k, ChaffTip(k), SortedDesc(all_units, k), MaxByScore(chaf_units, k))

\* What run_app shows for the current widget values, and the exception that
\* ended the run if one did.  Nothing is scored unless both rosters are
\* non-empty.
RunApp(k) ==
  IF my_units = <<>> \/ enemy_units = {} THEN NoRun("skipped")
  ELSE Suggest(k, ChaffTip(k), SortedDesc(all_units, k), MaxByScore(chaf_units, k))

\* The script runs to its end (or to its first exception) on every widget
\* change; the outputs are those of the new widget values.  The two panels
\* come before the suggestion section and are drawn whatever ends it.
Rerun ==
  \E k \in {Keys'} :
    \E out \in {RunApp(k)'} :
      /\ counters_panel' = CountersPanel'
      /\ vuln_panel' = VulnPanel'
      /\ status' = out.status
      /\ best_chaf' = out.best_chaf
      /\ ranked' = out.ranked
      /\ best' = out.best
      /\ second' = out.second
      /\ more_chaff' = out.more_chaff

NoCall == [unit |-> NoUnit, round |-> 0, result |-> [exc |-> "none", num |-> 0, den |-> 1]]

\* The session starts with the tables loaded, round 1 and nothing selected.
Init ==
  /\ \E kb \in KnowledgeBases :
       /\ data = kb.data
       /\ tiers = kb.tiers
       /\ units_meta = kb.units_meta
       /\ chaf_units = kb.chaf_units
  /\ round_num = 1
  /\ my_units = <<>>
  /\ enemy_units = {}
  /\ struggle_units = {}
  /\ counters_panel = Panel(FALSE, <<>>)
  /\ vuln_panel = Panel(FALSE, <<>>)
  /\ status = "skipped"
  /\ best_chaf = NoUnit
  /\ ranked = <<>>
  /\ best = NoUnit
  /\ second = NoUnit
  /\ more_chaff = NoUnit
  /\ call = NoCall

Tables == <<data, tiers, units_meta, chaf_units>>

\* round_num = st.number_input("Current round", 1, 10, 1, step=1)
SetRound(r) ==
  /\ r # round_num
  /\ round_num' = r
  /\ UNCHANGED <<Tables, my_units, enemy_units, struggle_units, call>>
  /\ Rerun

\* my_units = st.multiselect("My build", all_units): pick one more unit
SelectMy(u) ==
  /\ InList(u, all_units)
  /\ ~InList(u, my_units)
  /\ my_units' = Append(my_units, u)
  /\ UNCHANGED <<Tables, round_num, enemy_units, struggle_units, call>>
  /\ Rerun

\* ... or drop one
DeselectMy(u) ==
  /\ InList(u, my_units)
  /\ my_units' = SelectSeq(my_units, LAMBDA m : m # u)
  /\ UNCHANGED <<Tables, round_num, enemy_units, struggle_units, call>>
  /\ Rerun

\* enemy_units = st.multiselect("Enemy units", all_units).  The struggle
\* picker takes enemy_units as its options: when they change it either
\* keeps the choices that are still options or starts empty again.
ToggleEnemy(u) ==
  /\ InList(u, all_units)
  /\ enemy_units' = IF u \in enemy_units THEN enemy_units \ {u} ELSE enemy_units \cup {u}
  /\ struggle_units' \in {{}, struggle_units \cap enemy_units'}
  /\ UNCHANGED <<Tables, round_num, my_units, call>>
  /\ Rerun

\* struggle_units = st.multiselect("Struggle units", enemy_units, ...)
ToggleStruggle(u) ==
  /\ u \in enemy_units
  /\ struggle_units' = IF u \in struggle_units THEN struggle_units \ {u}
                       ELSE struggle_units \cup {u}
  /\ UNCHANGED <<Tables, round_num, my_units, enemy_units, call>>
  /\ Rerun

Next ==
  \/ \E r \in MinRound..MaxRound : SetRound(r)
  \/ \E u \in NameSet : SelectMy(u)
  \/ \E u \in NameSet : DeselectMy(u)
  \/ \E u \in NameSet : ToggleEnemy(u)
  \/ \E u \in NameSet : ToggleStruggle(u)

Spec == Init /\ [][Next]_vars

\* ------------------------------------------- the cost term on its own

\* cost_pen evaluated for unit u with the round as a free argument: the
\* formula of score_unit beyond the rounds the selector can produce.
CallCostPen(u, r) ==
  /\ call' = [unit |-> u, round |-> r, result |-> cost_pen(u, r)]
  /\ UNCHANGED <<Tables, round_num, my_units, enemy_units, struggle_units,
                 counters_panel, vuln_panel, status, best_chaf, ranked, best,
                 second, more_chaff>>

NextCost == \E u \in NameSet : \E r \in MinRound..MaxRoundArg : CallCostPen(u, r)

SpecCost == Init /\ [][NextCost]_vars

\* ------------------------------------------------------------ the scraper

\* The slugs the /unit/<slug> links of the scraped site carry, and what
\* slug_to_name (slug.replace("-", " ").title()) makes of each: title()
\* gives two spellings of one slug the same name.
SlugNames ==
  ( "arclight" :> "Arclight" @@ "Arclight" :> "Arclight" @@ "crawler" :> "Crawler" )

Slugs == DOMAIN SlugNames

slug_to_name(slug) == SlugNames[slug]

\* A link whose href has no /unit/<slug> in it.
OtherLink == "/guides"

Hrefs == Slugs \cup {OtherLink}

\* The links met between a heading and the next one, in page order.
LinkLists == UNION {[1..n -> Hrefs] : n \in 0..MaxLinks}

\* The loop of extract_unit_names over the links after the heading, names
\* holding the names kept so far (seen holds the same names as a set).
RECURSIVE ExtractFrom(_, _)
ExtractFrom(links, names) ==
  IF links = <<>> THEN names
  ELSE IF Head(links) \in Slugs /\ ~InList(slug_to_name(Head(links)), names)
    THEN ExtractFrom(Tail(links), Append(names, slug_to_name(Head(links))))
  ELSE ExtractFrom(Tail(links), names)

\* extract_unit_names(start)
extract_unit_names(links) == ExtractFrom(links, <<>>)

\* scrape_unit_page(url), for a page with the links ua under its "Used
\* against" heading and cb under its "Countered by" heading (no links where
\* the heading is absent); the image and the two guide texts are left out.
scrape_unit_page(ua, cb) == Rel(extract_unit_names(cb), extract_unit_names(ua))

\* Before scraping: no unit yet, and none of the other files.
InitScrape ==
  /\ data = [u \in {} |-> Rel(<<>>, <<>>)]
  /\ tiers = TiersNone
  /\ units_meta = MetaNone
  /\ chaf_units = <<>>
  /\ round_num = 1
  /\ my_units = <<>>
  /\ enemy_units = {}
  /\ struggle_units = {}
  /\ counters_panel = Panel(FALSE, <<>>)
  /\ vuln_panel = Panel(FALSE, <<>>)
  /\ status = "skipped"
  /\ best_chaf = NoUnit
  /\ ranked = <<>>
  /\ best = NoUnit
  /\ second = NoUnit
  /\ more_chaff = NoUnit
  /\ call = NoCall

\* One turn of the loop of scrape_all_units: data[name] = scrape_unit_page(url)
\* for the next entry of links, a dict keyed by name, so that every name is
\* scraped once.  (A page that fails to load leaves data as it is.)
ScrapePage(slug, ua, cb) ==
  /\ slug_to_name(slug) \notin DOMAIN data
  /\ data' = data @@ (slug_to_name(slug) :> scrape_unit_page(ua, cb))
  /\ UNCHANGED <<tiers, units_meta, chaf_units, round_num, my_units,
                 enemy_units, struggle_units, counters_panel, vuln_panel,
                 status, best_chaf, ranked, best, second, more_chaff, call>>

NextScrape ==
  \E slug \in Slugs : \E ua \in LinkLists : \E cb \in LinkLists :
    ScrapePage(slug, ua, cb)

SpecScrape == InitScrape /\ [][NextScrape]_vars

\* ------------------------------------------------------------------ claims

\* The units score_unit is ever called on: the ranking scores all_units,
\* the chaff tips score chaf_units.
Candidates == ToSet(all_units) \cup ToSet(chaf_units)

\* score_unit has been called in the last run.
Scored == status # "skipped"

Key(u) == score_unit(u).val

Returned(u) == score_unit(u).exc = "none"

\* C1 (as claimed): the struggle-unit term is +10 for a candidate that is in
\* the used_against list of some unit of struggle_units and 0 for any other
\* candidate; in particular it is a number for a candidate with no such
\* relation, also when struggle_units is empty.  (Stated for the calls
\* that reach the struggle lines, the statements before them not raising.)
C1_StruggleTermIsNumber ==
  Scored =>
    \A u \in Candidates :
      (titan_pen(u).exc = "none" /\ giant_pen(u).exc = "none") =>
        struggle_priority(u) =
          Ok(IF \E s \in struggle_units : InList(u, UsedAgainst(s)) THEN 10 ELSE 0)

\* C2 (as claimed): score_unit never raises because a unit (the candidate or
\* a member of my_units or enemy_units) has no entry in the metadata, counter
\* or tier table, and a candidate without metadata counts as cost 300,
\* unlock cost 0, non-titan, non-giant.
C2_LookupsTotal ==
  Scored =>
    \A u \in Candidates :
      /\ score_unit(u).exc # "KeyError"
      /\ u \notin DOMAIN units_meta =>
           /\ ~is_titan(u)
           /\ ~is_giant(u)
           /\ MetaOf(u).cost = 300
           /\ MetaOf(u).unlock_cost = 0

\* C3: a ranking, once produced, is a permutation of all_units in which a
\* unit with a larger composite score comes first and units with equal
\* scores come in ascending name order.  (score desc, name asc) is a strict
\* total order on distinct names, so the roster and tables admit one such
\* sequence only: ranking them again gives the same list.
C3_RankingOrder ==
  ranked # <<>> =>
    /\ Len(ranked) = Len(all_units)
    /\ ToSet(ranked) = ToSet(all_units)
    /\ \A i, j \in DOMAIN ranked :
         i < j =>
           \/ Key(ranked[i]) > Key(ranked[j])
           \/ /\ Key(ranked[i]) = Key(ranked[j])
              /\ NameIndex(ranked[i]) < NameIndex(ranked[j])

\* A ranking of three units holding both a tie and a strict step.
C3_Witness ==
  /\ Len(ranked) = 3
  /\ \E i, j \in DOMAIN ranked : i < j /\ Key(ranked[i]) = Key(ranked[j])
  /\ \E i, j \in DOMAIN ranked : i < j /\ Key(ranked[i]) > Key(ranked[j])

\* C4: for every candidate, new coverage and overlap coverage are disjoint,
\* together they are exactly the enemy units whose countered_by list holds
\* the candidate, and new coverage holds no enemy unit that a unit of
\* my_units already counters.
C4_CoveragePartition ==
  \A u \in Candidates :
    /\ new_cov(u) \cap overlap(u) = {}
    /\ new_cov(u) \cup overlap(u) = {e \in enemy_units : InList(u, CounteredBy(e))}
    /\ \A e \in new_cov(u) : \A i \in DOMAIN my_units : ~InList(my_units[i], CounteredBy(e))
    /\ \A e \in overlap(u) : \E i \in DOMAIN my_units : InList(my_units[i], CounteredBy(e))

\* A scored candidate with some new and some overlapping coverage.
C4_Witness ==
  /\ Scored
  /\ \E u \in Candidates : Returned(u) /\ new_cov(u) # {} /\ overlap(u) # {}

\* What C5 says the early-round class term is.
C5_Expected(u) ==
  (IF ~is_titan(u) THEN 0
   ELSE IF round_num <= 5 THEN -10
   ELSE IF round_num = 6 THEN -7
   ELSE IF round_num <= 9 THEN round_num - 10
   ELSE 0)
  + (IF is_giant(u) /\ round_num <= 3 THEN -6 ELSE 0)

\* C5 (as claimed): in every round a candidate that is neither titan nor
\* giant gets 0 from the early-round class term; a titan gets -10 in rounds
\* 1-5, -7 in round 6, round-10 in rounds 7-9 and 0 from round 10 on; a
\* giant gets a further -6 in rounds 1-3 only.  (Stated for the calls that
\* return a score.)
C5_EarlyRoundTerm ==
  Scored => \A u \in Candidates : Returned(u) => early_pen(u) = C5_Expected(u)

\* A unit of my_units is a titan (giant), a unit without metadata being
\* neither, as for a candidate.
MyTitans == {i \in DOMAIN my_units : is_titan(my_units[i])}

MyGiants == {i \in DOMAIN my_units : is_giant(my_units[i])}

\* C6 (as claimed): the titan-exclusivity term is exactly -999 for a titan
\* candidate whenever my_units holds a titan, and 0 when my_units holds no
\* titan or the candidate is not a titan.
C6_TitanExclusivity ==
  Scored =>
    \A u \in Candidates :
      titan_pen(u) = Ok(IF is_titan(u) /\ MyTitans # {} THEN -999 ELSE 0)

\* The quotient q is a number above (below) zero.
Positive(q) == q.exc = "none" /\ q.num * q.den > 0

Negative(q) == q.exc = "none" /\ q.num * q.den < 0

\* Quotient p is below quotient q, both with a divisor above zero.
Below(p, q) == p.num * q.den < q.num * p.den

CostOf(u) == MetaOf(u).cost + MetaOf(u).unlock_cost

C9_GiantStacking ==
  Scored =>
    \A u \in Candidates :
      giant_pen(u) =
        Ok(IF ~is_giant(u) \/ Cardinality(MyGiants) = 0 THEN 0
           ELSE IF Cardinality(MyGiants) = 1 THEN -2
           ELSE IF Cardinality(MyGiants) = 2 THEN -5
           ELSE -10)

\* C10: the enemy-interaction term is -8 times the number of distinct enemy
\* units that are in the candidate's countered_by list or have the candidate
\* in their used_against list; an enemy unit in both relations counts once,
\* and no such unit gives 0.
C10_EnemyInteraction ==
  \A u \in Candidates :
    vuln_pen(u) =
      -8 * Cardinality(  {en \in enemy_units : InList(en, CounteredBy(u))}
                    \cup {en \in enemy_units : InList(u, UsedAgainst(en))} )

\* A scored candidate with an enemy unit in both relations and one in the
\* first only.
C10_Witness ==
  /\ Scored
  /\ \E u \in Candidates :
       /\ Returned(u)
       /\ \E en \in enemy_units : InList(en, CounteredBy(u)) /\ InList(u, UsedAgainst(en))
       /\ \E en \in enemy_units : InList(en, CounteredBy(u)) /\ ~InList(u, UsedAgainst(en))

\* C11: when my_units or enemy_units is empty (both included) the run scores
\* nothing, ranks nothing, gives no chaff tip and raises nothing; in every
\* run the counter panel is drawn exactly when enemy_units is non-empty and
\* the vulnerability panel exactly when my_units is non-empty; rank_counters
\* and find_vuln return the empty list for an empty roster.
C11_EmptyRoster ==
  /\ (my_units = <<>> \/ enemy_units = {}) =>
       /\ status = "skipped"
       /\ ranked = <<>>
       /\ best = NoUnit /\ second = NoUnit
       /\ best_chaf = NoUnit /\ more_chaff = NoUnit
  /\ counters_panel.shown <=> enemy_units # {}
  /\ vuln_panel.shown <=> my_units # <<>>
  /\ ~counters_panel.shown => counters_panel.rows = <<>>
  /\ ~vuln_panel.shown => vuln_panel.rows = <<>>
  /\ rank_counters({}) = <<>>
  /\ find_vuln(<<>>) = <<>>

\* A build of two units against no enemy: the vulnerability panel lists a
\* unit, the counter panel is not drawn and nothing is scored.
C11_Witness ==
  /\ Len(my_units) = 2
  /\ enemy_units = {}
  /\ vuln_panel.shown /\ vuln_panel.rows # <<>>
  /\ ~counters_panel.shown
  /\ status = "skipped"

\* C12 (as claimed): in a scored run the chaff advisory is given in round 1
\* only, and is then a chaff unit whose score no chaff unit exceeds; in any
\* other round the run recommends no chaff unit outside the ranking; and an
\* empty chaf_units raises nothing.
C12_ChaffAdvisory ==
  Scored =>
    /\ best_chaf # NoUnit =>
         /\ round_num = 1
         /\ InList(best_chaf, chaf_units)
         /\ \A i \in DOMAIN chaf_units : Key(chaf_units[i]) <= Key(best_chaf)
    /\ round_num # 1 => more_chaff = NoUnit
    /\ chaf_units = <<>> => status # "ValueError"

\* C13 (as claimed): after a page is scraped, neither list stored for the
\* unit holds the unit's own name, whatever links the page has under the two
\* headings, and no name is listed twice.
C13_NoSelfReference ==
  \A u \in DOMAIN data :
    /\ ~InList(u, data[u].countered_by)
    /\ ~InList(u, data[u].used_against)
    /\ \A i, j \in DOMAIN data[u].countered_by :
         data[u].countered_by[i] = data[u].countered_by[j] => i = j
    /\ \A i, j \in DOMAIN data[u].used_against :
         data[u].used_against[i] = data[u].used_against[j] => i = j

\* C14 (as claimed): with both rosters non-empty, once the ranking is made
\* the primary suggestion is its first unit and the secondary its second
\* unit when it has one; taking them raises nothing, also when the ranking
\* has one unit only.
C14_TopTwo ==
  (my_units # <<>> /\ enemy_units # {} /\ ranked # <<>>) =>
    /\ status # "IndexError"
    /\ best = ranked[1]
    /\ Len(ranked) >= 2 => second = ranked[2]
    /\ Len(ranked) = 1 => second = NoUnit

====
